---- MODULE Spec2Model ----
(***************************************************************************)
(* MT5 US News Blackout Bridge (src/main.py).                              *)
(*                                                                         *)
(* One FastAPI process, one asyncio event loop.  A request handler runs    *)
(* without interruption between two awaits, so a request is two steps:     *)
(*   us_news_status        query validation, token check, clock reads and  *)
(*                         the cache lookup; on a hit the whole response   *)
(*                         (no await is reached on that path);             *)
(*   upstream_response     status check, XML parse, filter, cache write    *)
(*                         and the blackout scan,                          *)
(*   or upstream_transport_error when client.get() raises.                 *)
(* Requests are interchangeable, so the suspended ones form a bag.  The    *)
(* response a step produces stays in sent until the next handler step.     *)
(* Time is in whole seconds.  Optional values are <<>> (None) or <<v>>.    *)
(***************************************************************************)
EXTENDS Integers, Sequences, FiniteSets, Bags, TLC

VARIABLES
    BRIDGE_TOKEN,    \* os.getenv("BRIDGE_TOKEN", ""), read once at import
    CACHE_TTL_SEC,   \* int(os.getenv("CACHE_TTL_SEC", "300")), read once
    _CACHE,          \* the module-level dict {"ts": .., "data": ..}
    clock,           \* the wall clock read by time.time() / datetime.now()
    inflight,        \* the bag of handler frames suspended in client.get()
    sent,            \* the response the latest handler step produced, if any
    ev_in,           \* arguments of _is_blackout when it is run on its own
    ev_out           \* its result

vars == <<BRIDGE_TOKEN, CACHE_TTL_SEC, _CACHE, clock, inflight, sent, ev_in,
          ev_out>>

-----------------------------------------------------------------------------
(* Bounds *)

MaxReqs == 2          \* requests suspended in client.get() at a time
MaxTicks == 2         \* the clock advances this many times
MaxEvalTime == 4      \* evaluator runs: instants 0 .. MaxEvalTime*TickSec
MaxEvalMin == 2       \* evaluator runs: pre/post minutes 0 .. MaxEvalMin

TickSec == 30         \* granularity of the modelled clock, in seconds

(* Program constants *)

DEFAULT_PRE_MIN == 10
DEFAULT_POST_MIN == 30
MIN_MINUTES == 0
MAX_MINUTES == 240
SNIPPET_LEN == 300
SEC_PER_MIN == 60

None == <<>>
Some(v) == <<v>>
IsNone(o) == o = <<>>
Val(o) == o[1]

Max(a, b) == IF a >= b THEN a ELSE b
Min(a, b) == IF a <= b THEN a ELSE b

-----------------------------------------------------------------------------
(* Text helpers.  Python's str methods and parsers, tabulated on the texts *)
(* the modelled feeds contain.                                             *)

\* str.strip()
Strip(s) ==
    CASE s = " USD " -> "USD"
      [] s = " 60 "  -> "60"
      [] s = " "     -> ""
      [] OTHER       -> s

\* str.upper()
Upper(s) ==
    CASE s = "usd" -> "USD"
      [] s = "Usd" -> "USD"
      [] s = "eur" -> "EUR"
      [] s = "United States" -> "UNITED STATES"
      [] OTHER     -> s

\* str.lower()
Lower(s) ==
    CASE s = "High"      -> "high"
      [] s = "HIGH"      -> "high"
      [] s = "Medium"    -> "medium"
      [] s = "Low"       -> "low"
      [] s = "Holiday"   -> "holiday"
      [] s = "All Day"   -> "all day"
      [] s = "Tentative" -> "tentative"
      [] s = "1:30pm"    -> "1:30pm"
      [] OTHER           -> s

\* _safe_text: None element or None text give "", otherwise the stripped text
_safe_text(el) == IF IsNone(el) THEN "" ELSE Strip(Val(el))

\* int(float(s)): <<n>> when it succeeds, <<>> when it raises
IntOfFloat(s) ==
    CASE s = "0"     -> Some(0)
      [] s = "30"    -> Some(30)
      [] s = "60"    -> Some(60)
      [] s = "90"    -> Some(90)
      [] s = "120"   -> Some(120)
      [] s = "60.9"  -> Some(60)
      [] s = "9e1"   -> Some(90)
      [] s = "-30"   -> Some(0 - 30)
      [] OTHER       -> None       \* "abc", "nan", "inf", "12:00", ...

\* _parse_epoch_utc
_parse_epoch_utc(s) ==
    IF s = "" THEN None ELSE IntOfFloat(s)

\* datetime.fromisoformat(f"{date_s}T{time_s}:00").replace(tzinfo=utc):
\* <<epoch seconds>>, or <<>> when fromisoformat raises
FromIsoFormat(date_s, time_s) ==
    IF date_s # "1970-01-01" THEN None
    ELSE CASE time_s = "00:00" -> Some(0)
           [] time_s = "00:01" -> Some(60)
           [] time_s = "00:02" -> Some(120)
           [] OTHER            -> None

\* datetime.isoformat() of an aware UTC datetime, as its fields
\* <<year, month, day, hour, minute, second, utc offset>> (first day of 1970)
IsoFormat(t) ==
    <<1970, 1, 1, t \div 3600, (t % 3600) \div 60, t % 60, 0>>

-----------------------------------------------------------------------------
(* The upstream calendar.  An <event> element is the record of its child   *)
(* elements: <<>> when the child is absent, <<text>> when it is present.   *)

Item(title, event, currency, country, impact, timestamp, date, time) ==
    [title |-> title, event |-> event, currency |-> currency,
     country |-> country, impact |-> impact, timestamp |-> timestamp,
     date |-> date, time |-> time]

\* USD / High with an epoch timestamp
ItemA == Item(Some("A"), None, Some("USD"), None, Some("High"),
              Some("30"), Some("01-01-1970"), Some("1:30pm"))
ItemB == Item(Some("B"), None, Some("usd"), Some("EUR"), Some("HIGH"),
              Some("9e1"), None, None)
\* no <currency>, no <title>, no <timestamp>: country, event and date+time
ItemC == Item(None, Some("C"), None, Some(" USD "), Some("high"),
              None, Some("1970-01-01"), Some("00:01"))
\* below the impact threshold
ItemM == Item(Some("M"), None, Some("USD"), None, Some("Medium"),
              Some("60"), None, None)
ItemL == Item(Some("L"), None, Some("USD"), None, Some("Low"),
              Some("90"), None, None)
\* not the US market
ItemE == Item(Some("E"), None, Some("eur"), Some("USD"), Some("High"),
              Some("60"), None, None)
\* no usable time
ItemU == Item(Some("U"), None, Some("USD"), None, Some("High"),
              Some("abc"), Some("01-01-1970"), Some("1:30pm"))
ItemD == Item(Some("D"), None, Some("USD"), None, Some("High"),
              Some(" "), Some("1970-01-01"), Some("All Day"))
ItemT == Item(Some("T"), None, Some("Usd"), None, Some("High"),
              None, Some("1970-01-01"), Some("Tentative"))

\* titles of the items a correct filter never lets through
DroppedTitles == {"M", "L", "E", "U", "D", "T"}

\* The documents the upstream can serve (root.findall(".//event"), in
\* document order)
Feeds == <<
    <<ItemM, ItemU, ItemE>>,
    <<ItemL, ItemB, ItemD, ItemA, ItemT, ItemC>> >>

\* A body of n characters
Body(n) == [i \in 1..n |-> IF i > SNIPPET_LEN THEN "Z" ELSE "x"]

\* The upstream's answers: status_code and text of the httpx response, and
\* root, the result of ET.fromstring(text): <<document>>, or <<>> when it
\* raises.
Reply(status_code, text, root) ==
    [status_code |-> status_code, text |-> text, root |-> root]

Replies == <<
    Reply(200, Body(SNIPPET_LEN - 1), Some(Feeds[1])),
    Reply(200, Body(SNIPPET_LEN + 2), Some(Feeds[2])),
    Reply(200, Body(SNIPPET_LEN + 1), None),
    Reply(500, Body(SNIPPET_LEN + 1), Some(Feeds[2])) >>

ReplyIds == 1..Len(Replies)

-----------------------------------------------------------------------------
(* Calendar fetch: the body of the for loop over root.findall(".//event")  *)

\* a or b on Python strings: b when a is empty
OrElse(a, b) == IF a = "" THEN b ELSE a

\* the date+time fallback: <<epoch seconds>> or <<>>
FallbackTime(ev) ==
    LET date_s == _safe_text(ev.date)
        time_s == _safe_text(ev.time)
    IN  IF date_s # "" /\ time_s # ""
           /\ Lower(time_s) \notin {"all day", "tentative"}
        THEN FromIsoFormat(date_s, time_s)
        ELSE None

\* dt after the timestamp attempt and the fallback
EventTime(ev) ==
    LET dt == _parse_epoch_utc(_safe_text(ev.timestamp))
    IN  IF IsNone(dt) THEN FallbackTime(ev) ELSE dt

\* Keeps without the impact test
Keeps_AnyImpact(ev) ==
    LET currency == OrElse(_safe_text(ev.currency), _safe_text(ev.country))
    IN  /\ Upper(currency) = "USD"
        /\ ~IsNone(EventTime(ev))

\* whether the loop body reaches events.append for this element
Keeps(ev) ==
    LET currency == OrElse(_safe_text(ev.currency), _safe_text(ev.country))
        impact   == _safe_text(ev.impact)
    IN  /\ Upper(currency) = "USD"
        /\ Lower(impact) = "high"
        /\ ~IsNone(EventTime(ev))

\* the dict appended for a kept element
EventDict(ev) ==
    [event          |-> OrElse(_safe_text(ev.title), _safe_text(ev.event)),
     currency       |-> "USD",
     impact         |-> "High",
     event_time_utc |-> EventTime(ev)]

\* ParseEvents building the list from the last element to the first
RECURSIVE ParseEvents_Reversed(_)
ParseEvents_Reversed(doc) ==
    IF doc = <<>> THEN <<>>
    ELSE LET rest == ParseEvents_Reversed(Tail(doc))
         IN  IF Keeps(Head(doc)) THEN rest \o <<EventDict(Head(doc))>>
             ELSE rest

\* the list built by the loop, in document order
RECURSIVE ParseEvents(_)
ParseEvents(doc) ==
    IF doc = <<>> THEN <<>>
    ELSE LET rest == ParseEvents(Tail(doc))
         IN  IF Keeps(Head(doc)) THEN <<EventDict(Head(doc))>> \o rest
             ELSE rest

\* Snippet without the [:300] slice
Snippet_Whole(text) == text

\* the first SNIPPET_LEN characters of the upstream body: (text or "")[:300]
Snippet(text) == SubSeq(text, 1, Min(Len(text), SNIPPET_LEN))

-----------------------------------------------------------------------------
(* Window evaluation *)

\* _is_blackout with the end of the window excluded
_is_blackout_OpenEnd(now, event_time, pre_min, post_min) ==
    LET start == event_time - (pre_min * SEC_PER_MIN)
        end   == event_time + (post_min * SEC_PER_MIN)
    IN  start <= now /\ now < end

_is_blackout(now, event_time, pre_min, post_min) ==
    LET start == event_time - (pre_min * SEC_PER_MIN)
        end   == event_time + (post_min * SEC_PER_MIN)
    IN  start <= now /\ now <= end

\* Python's int(x / 60): truncation towards zero
IntDiv(a, b) == IF a >= 0 THEN a \div b ELSE 0 - ((0 - a) \div b)

\* MinutesToClear rounding up
MinutesToClear_Ceil(now, dt, post_minutes) ==
    LET end_ts == dt + (post_minutes * SEC_PER_MIN)
    IN  Max(0, IntDiv(end_ts - now + (SEC_PER_MIN - 1), SEC_PER_MIN))

\* MinutesToClear rounding to the nearest minute
MinutesToClear_Round(now, dt, post_minutes) ==
    LET end_ts == dt + (post_minutes * SEC_PER_MIN)
    IN  Max(0, IntDiv(end_ts - now + (SEC_PER_MIN \div 2), SEC_PER_MIN))

\* MinutesToClear with now and end_ts exchanged and without the clamp
MinutesToClear_Reversed(now, dt, post_minutes) ==
    LET end_ts == dt + (post_minutes * SEC_PER_MIN)
    IN  IntDiv(now - end_ts, SEC_PER_MIN)

\* max(0, int((end_ts - now.timestamp()) / 60))
MinutesToClear(now, dt, post_minutes) ==
    LET end_ts == dt + (post_minutes * SEC_PER_MIN)
    IN  Max(0, IntDiv(end_ts - now, SEC_PER_MIN))

\* the JSON body returned from inside the loop
BlackoutBody(ev, now, pre_minutes, post_minutes) ==
    [us_news_blackout |-> TRUE,
     event            |-> ev.event,
     currency         |-> "USD",
     impact           |-> "High",
     event_time_utc   |-> IsoFormat(Val(ev.event_time_utc)),
     minutes_to_clear |-> MinutesToClear(now, Val(ev.event_time_utc),
                                         post_minutes),
     pre_minutes      |-> pre_minutes,
     post_minutes     |-> post_minutes,
     source           |-> "ff_thisweek_xml"]

\* the JSON body returned after the loop
ClearBody(pre_minutes, post_minutes) ==
    [us_news_blackout |-> FALSE,
     pre_minutes      |-> pre_minutes,
     post_minutes     |-> post_minutes,
     source           |-> "ff_thisweek_xml"]

\* ScanEvents keeping the last event in blackout instead of the first
RECURSIVE ScanEvents_LastFound(_, _, _, _)
ScanEvents_LastFound(events, now, pre_minutes, post_minutes) ==
    IF events = <<>> THEN ClearBody(pre_minutes, post_minutes)
    ELSE LET rest == ScanEvents_LastFound(Tail(events), now, pre_minutes,
                                          post_minutes)
         IN  IF rest.us_news_blackout THEN rest
             ELSE IF _is_blackout(now, Val(Head(events).event_time_utc),
                                  pre_minutes, post_minutes)
                  THEN BlackoutBody(Head(events), now, pre_minutes,
                                    post_minutes)
                  ELSE rest

\* for ev in events: return at the first event in blackout
RECURSIVE ScanEvents(_, _, _, _)
ScanEvents(events, now, pre_minutes, post_minutes) ==
    IF events = <<>> THEN ClearBody(pre_minutes, post_minutes)
    ELSE IF _is_blackout(now, Val(Head(events).event_time_utc),
                         pre_minutes, post_minutes)
         THEN BlackoutBody(Head(events), now, pre_minutes, post_minutes)
         ELSE ScanEvents(Tail(events), now, pre_minutes, post_minutes)

-----------------------------------------------------------------------------
(* Requests *)

\* a query string: <<>> for an omitted parameter
Query(token, pre, post) == [token |-> token, pre |-> pre, post |-> post]

\* what clients send
Queries == {
    Query(Some("s3cret"), None, Some(1)),
    Query(Some("s3cret"), Some(1), None),
    Query(Some("s3cret"), Some(MAX_MINUTES), Some(MIN_MINUTES)),
    Query(Some("s3cret"), Some(MAX_MINUTES + 1), Some(0)),
    Query(Some("s3cret"), Some(0), Some(MIN_MINUTES - 1)),
    Query(Some("wrong"), Some(0), Some(1)),
    Query(Some("wrong"), None, Some(MAX_MINUTES + 1)),
    Query(Some(""), None, None),
    Query(None, Some(1), Some(1)) }

\* the configurations the process can be started with
Secrets == {"", "s3cret"}
TTLs    == {0, 2 * TickSec}

\* a handler frame: the query parameters, the locals of us_news_status and
\* _fetch_us_high_impact_events, the upstream answer received (0: none),
\* the number of upstream GETs issued, and the response sent
Frame(pc, token, pre, post, now, now_ts, events, reply, gets, resp) ==
    [pc |-> pc, token |-> token, pre_minutes |-> pre, post_minutes |-> post,
     now |-> now, now_ts |-> now_ts, events |-> events, reply |-> reply,
     gets |-> gets, resp |-> resp]

Response(status_code, detail, body) ==
    [status_code |-> status_code, detail |-> detail, body |-> body]

\* HTTPException(status_code=401, detail="Unauthorized")
Unauthorized == Response(401, Some("Unauthorized"), None)
\* FastAPI's RequestValidationError answer
Unprocessable == Response(422, None, None)
\* an exception that is not an HTTPException leaves the handler
InternalError == Response(500, None, None)
\* HTTPException(status_code=502, detail=f"... {status} | {upstream_body}")
BadGateway(msg, status, upstream_body) ==
    Response(502, Some([msg |-> msg, status |-> status,
                        upstream_body |-> upstream_body]), None)
Ok(body) == Response(200, None, Some(body))

\* ValidQuery with lt=240 in place of le=240
ValidQuery_Exclusive(token, pre, post) ==
    /\ ~IsNone(token)
    /\ IsNone(pre) \/ (MIN_MINUTES <= Val(pre) /\ Val(pre) < MAX_MINUTES)
    /\ IsNone(post) \/ (MIN_MINUTES <= Val(post) /\ Val(post) < MAX_MINUTES)

\* Query(..., ge=0, le=240): the declared constraints of the three parameters
ValidQuery(token, pre, post) ==
    /\ ~IsNone(token)
    /\ IsNone(pre) \/ (MIN_MINUTES <= Val(pre) /\ Val(pre) <= MAX_MINUTES)
    /\ IsNone(post) \/ (MIN_MINUTES <= Val(post) /\ Val(post) <= MAX_MINUTES)

\* Query(DEFAULT_PRE_MIN, ...): the value the handler receives
OrDefault(param, default) == IF IsNone(param) THEN default ELSE Val(param)

\* Authorized without the comparison of the token
Authorized_SecretConfigured(token) == BRIDGE_TOKEN # ""

\* Authorized without the "not BRIDGE_TOKEN" test
Authorized_NoEmptyTest(token) == token = BRIDGE_TOKEN

\* if not BRIDGE_TOKEN or token != BRIDGE_TOKEN: raise 401
Authorized(token) == ~(BRIDGE_TOKEN = "" \/ token # BRIDGE_TOKEN)

\* CacheHit with <= in place of <
CacheHit_Inclusive(now_ts) ==
    ~IsNone(_CACHE.data) /\ (now_ts - _CACHE.ts) <= CACHE_TTL_SEC

\* _CACHE["data"] is not None and (now_ts - _CACHE["ts"]) < CACHE_TTL_SEC
CacheHit(now_ts) ==
    ~IsNone(_CACHE.data) /\ (now_ts - _CACHE.ts) < CACHE_TTL_SEC

\* CacheStore never lowering the timestamp
CacheStore_MaxTs(now_ts, events) ==
    [ts |-> Max(_CACHE.ts, now_ts), data |-> Some(events)]

\* CacheStore stamping the entry with the clock at the end of the fetch
CacheStore_StampAtEnd(now_ts, events) ==
    [ts |-> clock, data |-> Some(events)]

\* CacheStore keeping an entry that is not older than the one to store
CacheStore_KeepNewer(now_ts, events) ==
    IF ~IsNone(_CACHE.data) /\ _CACHE.ts >= now_ts
    THEN _CACHE
    ELSE [ts |-> now_ts, data |-> Some(events)]

\* CacheStore writing the timestamp and leaving the list as it was
CacheStore_TsOnly(now_ts, events) == [_CACHE EXCEPT !.ts = now_ts]

\* _CACHE["ts"] = now_ts; _CACHE["data"] = events, with no await in between
CacheStore(now_ts, events) == [ts |-> now_ts, data |-> Some(events)]

-----------------------------------------------------------------------------
(* Initial states *)

NoEval == [now |-> 0, event_time |-> 0, pre_min |-> 0, post_min |-> 0]

Init ==
    /\ BRIDGE_TOKEN \in Secrets
    /\ CACHE_TTL_SEC \in TTLs
    /\ _CACHE = [ts |-> 0, data |-> None]
    /\ clock = 0
    /\ inflight = EmptyBag
    /\ sent = None
    /\ ev_in = NoEval
    /\ ev_out = None

-----------------------------------------------------------------------------
(* Actions *)

Config == <<BRIDGE_TOKEN, CACHE_TTL_SEC>>
Eval == <<ev_in, ev_out>>

\* time passes
Tick ==
    /\ clock + TickSec <= MaxTicks * TickSec
    /\ clock' = clock + TickSec
    /\ UNCHANGED <<Config, _CACHE, inflight, sent, Eval>>

\* GET /us_news_status arrives and runs up to its first suspension: either
\* to its response, or to the await of client.get().  No other handler runs
\* in between, and the clock reads of line 152 (now) and of line 64 (now_ts)
\* fall in the same tick.
us_news_status(token, pre, post) ==
    /\ LET pre_minutes  == OrDefault(pre, DEFAULT_PRE_MIN)
           post_minutes == OrDefault(post, DEFAULT_POST_MIN)
           now          == clock
           now_ts       == clock
           events       == Val(_CACHE.data)
       IN  IF ~ValidQuery(token, pre, post)
           THEN /\ sent' = Some(Frame("done", token, pre, post, None, None,
                                      None, 0, 0, Some(Unprocessable)))
                /\ UNCHANGED inflight
           ELSE IF ~Authorized(Val(token))
           THEN /\ sent' = Some(Frame("done", token, pre, post, None, None,
                                      None, 0, 0, Some(Unauthorized)))
                /\ UNCHANGED inflight
           ELSE IF CacheHit(now_ts)
           THEN /\ sent' = Some(Frame("done", token, pre, post, Some(now),
                                Some(now_ts), Some(events), 0, 0,
                                Some(Ok(ScanEvents(events, now, pre_minutes,
                                                   post_minutes)))))
                /\ UNCHANGED inflight
           ELSE /\ BagCardinality(inflight) < MaxReqs
                /\ inflight' = inflight (+) SetToBag({
                          Frame("fetching", token, pre, post, Some(now),
                                Some(now_ts), None, 0, 1, None)})
                /\ sent' = None
    /\ UNCHANGED <<Config, _CACHE, clock, Eval>>

\* the list the loop of lines 88-130 builds from each answer that has a
\* document
Parsed ==
    [k \in ReplyIds |->
        IF IsNone(Replies[k].root) THEN <<>>
        ELSE ParseEvents(Val(Replies[k].root))]

\* the upstream answers the GET of the suspended request f with Replies[k];
\* the handler resumes and runs to its response
upstream_response(f, k) ==
    /\ BagIn(f, inflight)
    /\ LET reply  == Replies[k]
           pre_minutes  == OrDefault(f.pre_minutes, DEFAULT_PRE_MIN)
           post_minutes == OrDefault(f.post_minutes, DEFAULT_POST_MIN)
           events == Parsed[k]
       IN  IF reply.status_code # 200
           THEN /\ sent' = Some([f EXCEPT !.pc = "done", !.reply = k,
                      !.resp = Some(BadGateway("Calendar upstream error",
                                        Some(reply.status_code),
                                        Snippet(reply.text)))])
                /\ UNCHANGED _CACHE
           ELSE IF IsNone(reply.root)
           THEN /\ sent' = Some([f EXCEPT !.pc = "done", !.reply = k,
                      !.resp = Some(BadGateway(
                                        "Upstream returned invalid XML",
                                        None, Snippet(reply.text)))])
                /\ UNCHANGED _CACHE
           ELSE /\ _CACHE' = CacheStore(Val(f.now_ts), events)
                /\ sent' = Some([f EXCEPT !.pc = "done", !.reply = k,
                      !.events = Some(events),
                      !.resp = Some(Ok(ScanEvents(events, Val(f.now),
                                        pre_minutes, post_minutes)))])
    /\ inflight' = inflight (-) SetToBag({f})
    /\ UNCHANGED <<Config, clock, Eval>>

\* upstream_transport_error issuing the GET a second time
upstream_transport_error_Retry(f) ==
    /\ BagIn(f, inflight)
    /\ sent' = None
    /\ inflight' = (inflight (-) SetToBag({f}))
                       (+) SetToBag({[f EXCEPT !.gets = 2]})
    /\ UNCHANGED <<Config, _CACHE, clock, Eval>>

\* client.get() raises (connection error, or a timeout of the 15 s limit):
\* no except clause catches it, so it leaves the handler
upstream_transport_error(f) ==
    /\ BagIn(f, inflight)
    /\ sent' = Some([f EXCEPT !.pc = "done", !.resp = Some(InternalError)])
    /\ inflight' = inflight (-) SetToBag({f})
    /\ UNCHANGED <<Config, _CACHE, clock, Eval>>

\* Complete for a request that has to wait until no other GET is pending
Complete_AfterOthers(f) ==
    /\ BagCardinality(inflight) = 1
    /\ \/ \E k \in ReplyIds : upstream_response(f, k)
       \/ upstream_transport_error(f)

\* the await of client.get() ends for the suspended request f, whatever the
\* other requests are doing: with an answer, or with an exception (the
\* client is created with timeout=15.0)
Complete(f) ==
    \/ \E k \in ReplyIds : upstream_response(f, k)
    \/ upstream_transport_error(f)

Next ==
    \/ Tick
    \/ \E q \in Queries : us_news_status(q.token, q.pre, q.post)
    \/ \E f \in BagToSet(inflight) : Complete(f)

Spec == Init /\ [][Next]_vars

\* The same program with the upstream call of every request ending, on
\* the requests that matter to completion: one that passes the test of line
\* 149 when the secret is configured, and one that never does.
FairQueries ==
    { Query(Some("s3cret"), None, Some(1)),
      Query(Some("wrong"), Some(0), Some(1)) }

NextFair ==
    \/ Tick
    \/ \E q \in FairQueries : us_news_status(q.token, q.pre, q.post)
    \/ \E f \in BagToSet(inflight) : Complete(f)

\* the frames a request can be suspended with
PendingFrames ==
    {Frame("fetching", q.token, q.pre, q.post, Some(t), Some(t), None, 0, 1,
           None) :
        q \in {r \in FairQueries : Val(r.token) \in Secrets \ {""}},
        t \in {i * TickSec : i \in 0..MaxTicks}}

\* every upstream call ends: it answers, fails, or times out
Fairness == \A f \in PendingFrames : WF_vars(Complete(f))

SpecFair == Init /\ [][NextFair]_vars /\ Fairness

-----------------------------------------------------------------------------
(* The window evaluator on its own: _is_blackout applied to every          *)
(* combination of instants and window lengths within the bounds.           *)

EvalTimes == {i * TickSec : i \in 0..MaxEvalTime}
EvalMinutes == 0..MaxEvalMin

InitEval ==
    /\ BRIDGE_TOKEN = ""
    /\ CACHE_TTL_SEC = 0
    /\ _CACHE = [ts |-> 0, data |-> None]
    /\ clock = 0
    /\ inflight = EmptyBag
    /\ sent = None
    /\ ev_in \in [now : EvalTimes, event_time : EvalTimes,
                  pre_min : EvalMinutes, post_min : EvalMinutes]
    /\ ev_out = None

EvalBlackout ==
    /\ IsNone(ev_out)
    /\ ev_out' = Some(_is_blackout(ev_in.now, ev_in.event_time,
                                   ev_in.pre_min, ev_in.post_min))
    /\ UNCHANGED <<Config, _CACHE, clock, inflight, sent, ev_in>>

NextEval == EvalBlackout

SpecEval == InitEval /\ [][NextEval]_vars

-----------------------------------------------------------------------------
(* Properties.  Every response passes through sent in the state that follows *)
(* the handler step producing it.                                          *)

HasSent == ~IsNone(sent)
SentFrame == Val(sent)
StatusOf(f) == Val(f.resp).status_code
DetailOf(f) == Val(Val(f.resp).detail)
BodyOf(f) == Val(Val(f.resp).body)
IsOk(f) == StatusOf(f) = 200

\* the window parameters the handler works with
EffPre(f) == IF f.pre_minutes = None THEN DEFAULT_PRE_MIN
             ELSE Val(f.pre_minutes)
EffPost(f) == IF f.post_minutes = None THEN DEFAULT_POST_MIN
              ELSE Val(f.post_minutes)

InRange(param) == param = None \/ Val(param) \in MIN_MINUTES..MAX_MINUTES

\* the window of event e under the parameters of frame f
WindowStart(f, e) == Val(e.event_time_utc) - EffPre(f) * 60
WindowEnd(f, e) == Val(e.event_time_utc) + EffPost(f) * 60
InWindow(f, e) ==
    WindowStart(f, e) <= Val(f.now) /\ Val(f.now) <= WindowEnd(f, e)

\* the indices of the scanned events whose window contains the frame's now
Matches(f) ==
    {i \in 1..Len(Val(f.events)) : InWindow(f, Val(f.events)[i])}

\* the least element of a non-empty set of indices
Least(S) == CHOOSE i \in S : \A j \in S : i <= j

\* C1: a request with a token and in-range windows is answered 401 whenever
\* the configured secret is empty or differs from the token
C1_UnauthorizedIs401 ==
    HasSent =>
        LET f == SentFrame
        IN  (/\ f.token # None
             /\ InRange(f.pre_minutes) /\ InRange(f.post_minutes)
             /\ (BRIDGE_TOKEN = "" \/ Val(f.token) # BRIDGE_TOKEN))
            => StatusOf(f) = 401

\* an empty token against an empty secret has been refused
C1_Witness ==
    /\ HasSent
    /\ BRIDGE_TOKEN = ""
    /\ SentFrame.token = Some("")
    /\ StatusOf(SentFrame) = 401

\* C2: a 200 response reports the event of lowest index among those whose
\* window contains now, and reports no blackout, with the effective window
\* parameters, exactly when there is none
C2_FirstFound ==
    (HasSent /\ IsOk(SentFrame)) =>
        LET f == SentFrame
            body == BodyOf(f)
            events == Val(f.events)
        IN  /\ body.us_news_blackout = (Matches(f) # {})
            /\ body.pre_minutes = EffPre(f)
            /\ body.post_minutes = EffPost(f)
            /\ body.us_news_blackout =>
                   LET e == events[Least(Matches(f))]
                   IN  /\ body.event = e.event
                       /\ body.event_time_utc =
                              IsoFormat(Val(e.event_time_utc))

Distance(a, b) == IF a >= b THEN a - b ELSE b - a

\* several events are in their windows, the second one nearer to now than
\* the first, and the first one is reported
C2_Witness ==
    /\ HasSent /\ IsOk(SentFrame)
    /\ LET f == SentFrame
           events == Val(f.events)
       IN  /\ {1, 2} \subseteq Matches(f)
           /\ Distance(Val(events[2].event_time_utc), Val(f.now))
                  < Distance(Val(events[1].event_time_utc), Val(f.now))
           /\ BodyOf(f).event = events[1].event

\* C3: _is_blackout is true exactly on the closed interval
\* [event_time - pre*60, event_time + post*60]
C3_BlackoutIffInWindow ==
    ~IsNone(ev_out) =>
        (Val(ev_out) <=>
            /\ ev_in.event_time - ev_in.pre_min * 60 <= ev_in.now
            /\ ev_in.now <= ev_in.event_time + ev_in.post_min * 60)

\* now on the upper boundary of a window that is not a single instant
C3_Witness ==
    /\ ev_out = Some(TRUE)
    /\ ev_in.post_min > 0
    /\ ev_in.now = ev_in.event_time + ev_in.post_min * 60

\* a step in which a request passed the cache lookup and issued its GET
IssuesGet == BagCardinality(inflight') > BagCardinality(inflight)
\* the frame that step suspended
Issued ==
    CHOOSE f \in BagToSet(inflight') :
        CopiesIn(f, inflight') > CopiesIn(f, inflight)

\* a step in which a request was answered from the cache
ServesHit ==
    /\ sent' # None
    /\ sent' # sent
    /\ inflight' = inflight
    /\ StatusOf(Val(sent')) = 200

\* the cache entry as the lookup of a request reading the clock at t sees it
Initialised == _CACHE.data # None
AgeAt(t) == t - _CACHE.ts

\* what a step that passes the cache lookup has to satisfy
C4_Lookup ==
    /\ ServesHit =>
           LET f == Val(sent')
           IN  /\ Initialised
               /\ AgeAt(Val(f.now_ts)) < CACHE_TTL_SEC
               /\ CACHE_TTL_SEC # 0
               /\ f.gets = 0
               /\ f.events = _CACHE.data
               /\ _CACHE' = _CACHE
    /\ IssuesGet =>
           /\ Issued.gets = 1
           /\ ~(Initialised /\ AgeAt(Val(Issued.now_ts)) < CACHE_TTL_SEC)

\* C4: the lookup serves the stored list without a GET exactly when the
\* entry is initialised and younger than CACHE_TTL_SEC, and issues a GET
\* otherwise; with a TTL of 0 no request is served from the cache
C4_HitIffFresh == [][C4_Lookup]_vars

\* an entry holding no events has been served from the cache
C4_Witness ==
    /\ HasSent /\ IsOk(SentFrame)
    /\ SentFrame.gets = 0
    /\ SentFrame.events = Some(<<>>)
    /\ _CACHE.data = Some(<<>>)

\* the upstream answer of frame f was a bad status or a malformed body
BadAnswer(f) ==
    /\ f.gets = 1
    /\ f.reply # 0
    /\ \/ Replies[f.reply].status_code # 200
       \/ Replies[f.reply].root = None

IsPrefix(a, b) == Len(a) <= Len(b) /\ a = SubSeq(b, 1, Len(a))

\* what a step that answers a bad upstream answer has to satisfy
C5_Step ==
    (sent' # None /\ BadAnswer(Val(sent'))) =>
        LET f == Val(sent')
        IN  /\ StatusOf(f) = 502
            /\ Len(DetailOf(f).upstream_body) <= 300
            /\ IsPrefix(DetailOf(f).upstream_body, Replies[f.reply].text)
            /\ _CACHE' = _CACHE

\* C5: after a miss, a bad status or a malformed body ends the request with
\* 502 and at most the first 300 characters of the body, and the step that
\* does so leaves the cache entry as it was
C5_BadAnswerIs502 == [][C5_Step]_vars

\* an expired entry was there to fall back on, and the body was longer than
\* the snippet
C5_Witness ==
    /\ HasSent /\ BadAnswer(SentFrame)
    /\ StatusOf(SentFrame) = 502
    /\ Len(Replies[SentFrame.reply].text) > 300
    /\ CACHE_TTL_SEC > 0
    /\ _CACHE.data # None
    /\ Val(SentFrame.now_ts) - _CACHE.ts >= CACHE_TTL_SEC

\* C6: a request whose GET failed at transport level is answered 502
C6_TransportErrorIs502 ==
    (HasSent /\ SentFrame.gets = 1 /\ SentFrame.reply = 0)
        => StatusOf(SentFrame) = 502

\* the event a blackout response reports
Reported(f) == Val(f.events)[Least(Matches(f))]

IsBlackout(f) == IsOk(f) /\ BodyOf(f).us_news_blackout

\* seconds from the frame's now to the end of the reported window
Remaining(f) == WindowEnd(f, Reported(f)) - Val(f.now)

\* a single event at instant t
OneEvent(t) ==
    <<[event |-> "X", currency |-> "USD", impact |-> "High",
       event_time_utc |-> Some(t)]>>

\* C7: minutes_to_clear of a blackout response is
\* max(0, floor((event_time + post*60 - now) / 60)); an event at T with
\* windows 10/30 gives 35 at T - 5 min and no blackout at T + 35 min
C7_MinutesToClear ==
    /\ (HasSent /\ IsBlackout(SentFrame)) =>
           BodyOf(SentFrame).minutes_to_clear
               = Max(0, Remaining(SentFrame) \div 60)
    /\ LET body == ScanEvents(OneEvent(600), 600 - 5 * 60, 10, 30)
       IN  body.us_news_blackout /\ body.minutes_to_clear = 35
    /\ ~ScanEvents(OneEvent(600), 600 + 35 * 60, 10, 30).us_news_blackout

\* a remaining time that is not a whole number of minutes
C7_Witness ==
    /\ HasSent /\ IsBlackout(SentFrame)
    /\ Remaining(SentFrame) % 60 # 0
    /\ BodyOf(SentFrame).minutes_to_clear >= 1

\* C8 as stated: minutes_to_clear is never negative and is 0 exactly when
\* now >= event_time + post*60
C8_ZeroIffWindowEnded ==
    (HasSent /\ IsBlackout(SentFrame)) =>
        /\ BodyOf(SentFrame).minutes_to_clear >= 0
        /\ (BodyOf(SentFrame).minutes_to_clear = 0
                <=> Remaining(SentFrame) <= 0)

\* C8 amended: minutes_to_clear is never negative and is 0 exactly when less
\* than 60 seconds remain to the end of the window
C8_ZeroIffUnderAMinute ==
    (HasSent /\ IsBlackout(SentFrame)) =>
        /\ BodyOf(SentFrame).minutes_to_clear >= 0
        /\ (BodyOf(SentFrame).minutes_to_clear = 0
                <=> Remaining(SentFrame) < 60)

\* 0 minutes reported while the window is still open
C8_Witness ==
    /\ HasSent /\ IsBlackout(SentFrame)
    /\ BodyOf(SentFrame).minutes_to_clear = 0
    /\ Remaining(SentFrame) > 0

\* an event list holds only High / USD events with a time, none of them
\* made from a feed element the filter has to drop
AllHighUsdTimed(events) ==
    \A i \in 1..Len(events) :
        /\ events[i].impact = "High"
        /\ events[i].currency = "USD"
        /\ events[i].event_time_utc # None
        /\ events[i].event \notin DroppedTitles

\* C9: no event of non-high impact, of another currency or without a time
\* is ever in the cached list, in a list a handler scans, or in a response
C9_OnlyHighUsdTimed ==
    /\ _CACHE.data # None => AllHighUsdTimed(Val(_CACHE.data))
    /\ (HasSent /\ SentFrame.events # None)
           => AllHighUsdTimed(Val(SentFrame.events))
    /\ (HasSent /\ IsBlackout(SentFrame)) =>
           /\ BodyOf(SentFrame).impact = "High"
           /\ BodyOf(SentFrame).currency = "USD"
           /\ BodyOf(SentFrame).event \notin DroppedTitles

\* the cache holds what is left of a feed mixing low impact, all-day,
\* tentative and usable events
C9_Witness ==
    /\ _CACHE.data # None
    /\ Len(Val(_CACHE.data)) = 3
    /\ Val(_CACHE.data)[3].event = "C"
    /\ HasSent /\ SentFrame.reply = 2

\* a step in which a response served from the cache directly follows a 200
\* response computed from the same entry with the same window parameters
Repeated ==
    /\ ServesHit
    /\ HasSent /\ IsOk(SentFrame)
    /\ SentFrame.events = Val(sent').events
    /\ EffPre(SentFrame) = EffPre(Val(sent'))
    /\ EffPost(SentFrame) = EffPost(Val(sent'))

\* the same, the earlier response served from the cache as well
RepeatedHit == Repeated /\ SentFrame.gets = 0

SameSelection(f, g) ==
    /\ BodyOf(f).us_news_blackout = BodyOf(g).us_news_blackout
    /\ BodyOf(f).us_news_blackout =>
           /\ BodyOf(f).event = BodyOf(g).event
           /\ BodyOf(f).event_time_utc = BodyOf(g).event_time_utc

\* the same selection and a minutes_to_clear that does not increase
C10_Step ==
    RepeatedHit =>
        /\ SameSelection(SentFrame, Val(sent'))
        /\ BodyOf(SentFrame).us_news_blackout =>
               BodyOf(Val(sent')).minutes_to_clear
                   <= BodyOf(SentFrame).minutes_to_clear

\* C10 as stated: two successive responses served from the same cache entry
\* with the same window parameters report the same selection, and
\* minutes_to_clear does not increase
C10_Idempotent == [][C10_Step]_vars

\* the same selection when the same events are in their windows, and a
\* minutes_to_clear that does not increase for the same event
C10_AmendedStep ==
    Repeated =>
        LET f == SentFrame
            g == Val(sent')
        IN  /\ Val(f.now) <= Val(g.now)
            /\ Matches(f) = Matches(g) => SameSelection(f, g)
            /\ (BodyOf(f).us_news_blackout /\ SameSelection(f, g)) =>
                   BodyOf(g).minutes_to_clear <= BodyOf(f).minutes_to_clear

\* C10 amended: the later response is computed from the same event list at
\* a later instant; the selection is the same when no window of the list
\* opened or closed in between, and when both report the same event
\* minutes_to_clear does not increase
C10_SameWindowsSameSelection == [][C10_AmendedStep]_vars

\* a blackout served from the cache later than the entry was fetched
C10_Witness ==
    /\ HasSent /\ IsBlackout(SentFrame)
    /\ SentFrame.gets = 0
    /\ SentFrame.events = _CACHE.data
    /\ Val(SentFrame.now) > _CACHE.ts
    /\ BodyOf(SentFrame).minutes_to_clear >= 1

\* C11: a request that omits the token parameter is answered 401, as a
\* request with a mismatched token is
C11_MissingTokenIs401 ==
    (HasSent /\ SentFrame.token = None) => StatusOf(SentFrame) = 401

\* a step in which a request arrived and was answered at once
Answered == sent' # None /\ sent' # sent /\ Val(sent').gets = 0

\* what a step has to satisfy with regard to the window parameters
C12_Step ==
    /\ Answered =>
           LET f == Val(sent')
           IN  /\ ~(InRange(f.pre_minutes) /\ InRange(f.post_minutes)) =>
                      /\ StatusOf(f) = 422
                      /\ Val(f.resp).body = None
                      /\ f.now = None /\ f.events = None
                      /\ _CACHE' = _CACHE
                      /\ inflight' = inflight
               /\ (f.token # None /\ InRange(f.pre_minutes)
                     /\ InRange(f.post_minutes)) => StatusOf(f) # 422
    /\ \A f \in BagToSet(inflight') :
           InRange(f.pre_minutes) /\ InRange(f.post_minutes)

\* C12: a request with pre_minutes or post_minutes outside [0, 240] is
\* answered 422 with no upstream GET, no change of the cache and no blackout
\* result; a request with a token and both values within [0, 240], 0 and 240
\* included, is not answered 422
C12_OutOfRangeIs422 == [][C12_Step]_vars

\* 241 has been refused for the configured token while the cache was
\* uninitialised, and a request with 240 and 0 is waiting for its GET
C12_Witness ==
    /\ HasSent /\ StatusOf(SentFrame) = 422
    /\ SentFrame.token = Some(BRIDGE_TOKEN)
    /\ SentFrame.pre_minutes = Some(MAX_MINUTES + 1)
    /\ _CACHE.data = None
    /\ \E f \in BagToSet(inflight) :
           f.pre_minutes = Some(MAX_MINUTES) /\ f.post_minutes = Some(MIN_MINUTES)

\* frame f is the response of a fetch that succeeded
FetchedOk(f) == f.gets = 1 /\ f.reply # 0 /\ IsOk(f)

\* frame f as it was while its GET was pending
Pending(f) ==
    [f EXCEPT !.pc = "fetching", !.reply = 0, !.events = None, !.resp = None]

\* the list the fetch of frame f made of the answer it received
FetchedList(f) == Some(ParseEvents(Val(Replies[f.reply].root)))

\* what a step has to satisfy with regard to the cache entry
C13_Step ==
    /\ _CACHE' # _CACHE =>
           /\ sent' # None /\ FetchedOk(Val(sent'))
           /\ BagIn(Pending(Val(sent')), inflight)
           /\ Val(sent').events = FetchedList(Val(sent'))
           /\ _CACHE' = [ts |-> Val(Val(sent').now_ts),
                         data |-> Val(sent').events]
    /\ _CACHE.data # None => _CACHE'.data # None

\* C13: the entry starts uninitialised; it changes only in the step that
\* ends a successful fetch, which replaces the timestamp and the list
\* together by those of that one fetch; it is never reset to uninitialised
C13_WholeReplace ==
    /\ _CACHE = [ts |-> 0, data |-> None]
    /\ [][C13_Step]_vars

\* a fetch has replaced the entry while another request, begun at another
\* instant, is waiting for its own GET
C13_Witness ==
    /\ HasSent /\ FetchedOk(SentFrame)
    /\ _CACHE = [ts |-> Val(SentFrame.now_ts), data |-> SentFrame.events]
    /\ _CACHE.ts > 0
    /\ \E f \in BagToSet(inflight) : Val(f.now_ts) # _CACHE.ts

\* a step in which a pending GET ended
EndsGet == BagCardinality(inflight') < BagCardinality(inflight)

\* what a step has to satisfy with regard to concurrent fetches
C14_Step ==
    /\ \A f \in BagToSet(inflight') : f.gets = 1 /\ f.resp = None
    /\ IssuesGet => BagCardinality(inflight') = BagCardinality(inflight) + 1
    /\ (EndsGet /\ FetchedOk(Val(sent'))) =>
           LET f == Val(sent')
           IN  /\ f.events = FetchedList(f)
               /\ BodyOf(f).us_news_blackout = (Matches(f) # {})
               /\ BodyOf(f).us_news_blackout =>
                      BodyOf(f).event = Reported(f).event
               /\ _CACHE' = [ts |-> Val(f.now_ts), data |-> FetchedList(f)]

\* C14: every request that misses issues one GET of its own, whatever GETs
\* are pending; each successful fetch answers from the list it fetched
\* itself and overwrites the entry, whatever another fetch stored meanwhile,
\* so the entry is that of the fetch that completed last
C14_LastWriteWins == [][C14_Step]_vars

\* of two requests that missed, one has stored its list; the other, still
\* waiting for its GET, would now be served from the cache
C14_Witness ==
    /\ HasSent /\ FetchedOk(SentFrame)
    /\ _CACHE.data = SentFrame.events
    /\ \E g \in BagToSet(inflight) :
           /\ Val(g.now_ts) - _CACHE.ts < CACHE_TTL_SEC
           /\ Val(g.now_ts) >= Val(SentFrame.now_ts)

\* frame f belongs to a request that passed the test of line 149
Authorised(f) == BRIDGE_TOKEN # "" /\ f.token = Some(BRIDGE_TOKEN)

\* what a step has to satisfy with regard to the number of GETs
C15_Step ==
    /\ inflight' # inflight => (IssuesGet \/ EndsGet)
    /\ IssuesGet =>
           /\ inflight' = inflight (+) SetToBag({Issued})
           /\ Authorised(Issued) /\ Issued.gets = 1
           /\ sent' = None
    /\ EndsGet =>
           /\ sent' # None /\ Val(sent').pc = "done" /\ Val(sent').gets = 1
           /\ inflight' = inflight (-) SetToBag({Pending(Val(sent'))})
    /\ \A f \in BagToSet(inflight') : f.gets = 1
    /\ sent' # None =>
           LET f == Val(sent')
           IN  /\ f.gets \in {0, 1}
               /\ f.gets = 1 => Authorised(f)
               /\ (IsOk(f) /\ f.reply = 0) => f.gets = 0
               /\ StatusOf(f) \in {401, 422} => f.gets = 0

\* C15: a request served from the cache issues no GET and a request that
\* misses issues one; the step that ends a GET, with a list or with a
\* failure, ends the request without another GET; every GET is issued by
\* the arrival of one authorised request, which issues no other
C15_AtMostOneGet == [][C15_Step]_vars

\* an upstream failure has ended a request after its one GET, the cache is
\* still uninitialised and no GET is pending
C15_Witness ==
    /\ HasSent /\ SentFrame.gets = 1
    /\ StatusOf(SentFrame) \in {500, 502}
    /\ _CACHE.data = None
    /\ inflight = EmptyBag

\* the text of a child element, "" when absent or blank
TextOf(child) == IF child = None THEN "" ELSE Strip(Val(child))

\* the time of a feed element: the epoch timestamp when it parses, otherwise
\* date and time unless one is missing, the time reads "all day" or
\* "tentative", or the pair does not parse
TimeOf(ev) ==
    LET epoch == IF TextOf(ev.timestamp) = "" THEN None
                 ELSE IntOfFloat(TextOf(ev.timestamp))
    IN  IF epoch # None THEN epoch
        ELSE IF TextOf(ev.date) = "" \/ TextOf(ev.time) = "" THEN None
        ELSE IF Lower(TextOf(ev.time)) \in {"all day", "tentative"} THEN None
        ELSE FromIsoFormat(TextOf(ev.date), TextOf(ev.time))

\* the currency of a feed element, its country when there is no currency
CurrencyOf(ev) ==
    IF TextOf(ev.currency) # "" THEN TextOf(ev.currency)
    ELSE TextOf(ev.country)

\* the positions of the feed elements that qualify
Qualifying(doc) ==
    {i \in 1..Len(doc) :
        /\ Upper(CurrencyOf(doc[i])) = "USD"
        /\ Lower(TextOf(doc[i].impact)) = "high"
        /\ TimeOf(doc[i]) # None}

\* the j-th smallest element of a set of positions
Nth(S, j) == CHOOSE i \in S : Cardinality({m \in S : m < i}) = j - 1

\* events is the subsequence of doc at the qualifying positions, in order
IsQualifyingSubsequence(events, doc) ==
    /\ Len(events) = Cardinality(Qualifying(doc))
    /\ \A j \in 1..Len(events) :
           LET ev == doc[Nth(Qualifying(doc), j)]
           IN  /\ events[j].event =
                      (IF TextOf(ev.title) # "" THEN TextOf(ev.title)
                       ELSE TextOf(ev.event))
               /\ events[j].event_time_utc = TimeOf(ev)

\* frame f received status 200 and a document that parses
GoodAnswer(f) ==
    /\ f.gets = 1 /\ f.reply # 0
    /\ Replies[f.reply].status_code = 200
    /\ Replies[f.reply].root # None

\* C16: a fetch that receives status 200 and a well-formed document always
\* succeeds, and its list is the subsequence, in document order, of the
\* elements with currency (or country) USD, impact high and an obtainable
\* time; the other elements are skipped without failing the request
C16_QualifyingSubsequence ==
    (HasSent /\ GoodAnswer(SentFrame)) =>
        /\ IsOk(SentFrame)
        /\ SentFrame.events # None
        /\ IsQualifyingSubsequence(Val(SentFrame.events),
                                   Val(Replies[SentFrame.reply].root))

\* of six elements three were kept, in document order and not in order of
\* time, around an all-day, a tentative and a low-impact element
C16_Witness ==
    /\ HasSent /\ GoodAnswer(SentFrame) /\ IsOk(SentFrame)
    /\ Len(Val(Replies[SentFrame.reply].root)) = 6
    /\ Qualifying(Val(Replies[SentFrame.reply].root)) = {2, 4, 6}
    /\ LET events == Val(SentFrame.events)
       IN  /\ Len(events) = 3
           /\ Val(events[1].event_time_utc) > Val(events[2].event_time_utc)

\* the response of the request that was suspended with frame f is out
AnsweredFor(f) ==
    /\ sent # None
    /\ Val(sent).pc = "done" /\ Val(sent).resp # None
    /\ Pending(Val(sent)) = f

\* a request leaves the pending ones one at a time, with its response
C17_Step ==
    \A f \in BagToSet(inflight) :
        CopiesIn(f, inflight') < CopiesIn(f, inflight) =>
            /\ CopiesIn(f, inflight') = CopiesIn(f, inflight) - 1
            /\ sent' # None /\ Val(sent').resp # None
            /\ Pending(Val(sent')) = f

\* C17: when every upstream call ends, each request waiting for its GET is
\* eventually answered, with a result or an error, whatever requests are
\* pending beside it; the ending of its call is possible in every state,
\* and it takes the request away with one response
C17_EventuallyAnswered ==
    /\ \A f \in PendingFrames : BagIn(f, inflight) ~> AnsweredFor(f)
    /\ [](\A f \in BagToSet(inflight) : ENABLED <<Complete(f)>>_vars)
    /\ [][C17_Step]_vars

\* a request has been answered while another one, begun before it, is still
\* waiting for its GET
C17_Witness ==
    /\ HasSent /\ SentFrame.gets = 1 /\ SentFrame.pc = "done"
    /\ \E g \in BagToSet(inflight) : Val(g.now_ts) < Val(SentFrame.now_ts)

\* frame f belongs to a request the test of line 149 refuses
Refused(f) ==
    f.token # None /\ (BRIDGE_TOKEN = "" \/ Val(f.token) # BRIDGE_TOKEN)

\* what a step has to satisfy with regard to refused requests
C18_Step ==
    /\ (sent' # None /\ sent' # sent /\ Refused(Val(sent'))) =>
           LET f == Val(sent')
           IN  /\ f.gets = 0 /\ f.reply = 0
               /\ f.now_ts = None /\ f.events = None
               /\ Val(f.resp).body = None
               /\ inflight' = inflight
               /\ _CACHE' = _CACHE
    /\ \A f \in BagToSet(inflight') : ~Refused(f)

\* C18: the step that answers a request refused by the token test issues no
\* GET and leaves the cache timestamp and list as they were, and the
\* response carries nothing read from the cache; no request waiting for a
\* GET is a refused one
C18_RefusedTouchesNothing == [][C18_Step]_vars

\* a wrong token has been refused while the entry was expired
C18_Witness ==
    /\ HasSent /\ StatusOf(SentFrame) = 401
    /\ BRIDGE_TOKEN # "" /\ SentFrame.token = Some("wrong")
    /\ CACHE_TTL_SEC > 0
    /\ _CACHE.data # None
    /\ clock - _CACHE.ts >= CACHE_TTL_SEC

\* what a step has to satisfy with regard to the age of the served list
C19_Step ==
    /\ IssuesGet => Issued.now_ts = Some(clock)
    /\ (EndsGet /\ FetchedOk(Val(sent'))) =>
           /\ _CACHE'.ts = Val(Val(sent').now_ts)
           /\ _CACHE'.data = FetchedList(Val(sent'))
           /\ _CACHE'.ts <= clock
    /\ ServesHit =>
           LET g == Val(sent')
           IN  /\ g.events = _CACHE.data
               /\ g.now_ts = Some(clock)
               /\ 0 <= clock - _CACHE.ts
               /\ clock - _CACHE.ts < CACHE_TTL_SEC
    /\ (sent' # None /\ sent' # sent /\ IsOk(Val(sent')))
           => (ServesHit \/ (EndsGet /\ FetchedOk(Val(sent'))))

\* C19: the timestamp stored with a list is the clock reading its fetch
\* took before issuing the GET; a list is served from the cache only to a
\* request whose cache check reads the clock less than CACHE_TTL_SEC later;
\* every other 200 response is computed from the request's own fetch
C19_StalenessBound == [][C19_Step]_vars

\* a list has been served from the cache some time after its fetch began,
\* while a fetch begun before that one is still pending
C19_Witness ==
    /\ HasSent /\ IsOk(SentFrame) /\ SentFrame.gets = 0
    /\ SentFrame.events = _CACHE.data
    /\ Val(SentFrame.now_ts) - _CACHE.ts > 0
    /\ Val(SentFrame.now_ts) - _CACHE.ts < CACHE_TTL_SEC
    /\ \E g \in BagToSet(inflight) : Val(g.now_ts) < _CACHE.ts

\* C20 as stated: the stored timestamp never decreases
C20_TsNeverDecreases == [][_CACHE'.ts >= _CACHE.ts]_vars

\* what a step has to satisfy with regard to the stored timestamp
C20_AmendedStep ==
    /\ _CACHE'.ts <= clock'
    /\ _CACHE'.ts # _CACHE.ts => (EndsGet /\ FetchedOk(Val(sent')))
    /\ (EndsGet /\ FetchedOk(Val(sent'))) =>
           LET f == Val(sent')
           IN  /\ _CACHE'.ts = Val(f.now_ts)
               /\ _CACHE'.ts < _CACHE.ts <=>
                      (_CACHE.data # None /\ Val(f.now_ts) < _CACHE.ts)

\* C20 amended: the stored timestamp is never ahead of the clock and is
\* always the clock reading taken at its start by the fetch that completed
\* last; it decreases exactly when that fetch began before the fetch whose
\* entry it replaces
C20_TsOfLastCompleted == [][C20_AmendedStep]_vars

\* the entry was stored by a fetch that began after a fetch still pending
C20_Witness ==
    /\ HasSent /\ FetchedOk(SentFrame)
    /\ _CACHE.ts = Val(SentFrame.now_ts)
    /\ \E g \in BagToSet(inflight) : Val(g.now_ts) < _CACHE.ts

====
